---- MODULE Spec2Model ----
(***************************************************************************)
(* A model of the quintain cycle engine (src/src/quintain): the Server     *)
(* registry of devices, connections and services, and the per-cycle        *)
(* protocol of Server.next_cycle, together with the controllers and        *)
(* services shipped in controllers.py and services.py, and of the          *)
(* RealTimeServer driver that calls next_cycle from an asyncio task.       *)
(*                                                                         *)
(* A Python call is one action.  The exception a call raises is kept in    *)
(* last.err ("ok" when the call returned normally); trace holds the steps  *)
(* the last next_cycle call performed.                                     *)
(*                                                                         *)
(* The coroutine RealTimeServer.serve is a sequence of steps that ends at  *)
(* its await; running names the task that is between two awaits.  Time is  *)
(* the reading of the injected clock, in units of the precision of a frame *)
(* of duration Frame.                                                      *)
(***************************************************************************)
EXTENDS Integers, Sequences, FiniteSets, TLC

VARIABLES
    clients,      \* Server._clients: devices in registration order
    connections,  \* Server._connections
    services,     \* Server._services: <<priority, service>> tuples
    cycles,       \* State._cycles
    captured,     \* CaptureAll._data of every CaptureAll object
    ctl,          \* internal state of Recorder / LookupTable controllers
    last,         \* the call made last and the exception it raised
    trace,        \* steps performed by the last next_cycle call
    returned,     \* number of next_cycle calls that returned normally
    accepted,     \* requests of the add_connection calls that returned normally
    rts,          \* the RealTimeServer object: _duration, _grain, _precision, _start_time, _event
    tasks,        \* the asyncio tasks start() created, in order; _task is the last
    now,          \* the reading of the clock (_timer)
    running,      \* the task running between two awaits, 0 when none is
    joiner,       \* the caller's await of join()
    fired,        \* number of next_cycle calls the driver has made
    pace          \* whether every wake-up came as its sleep ended, and how many have since the last late one

vars == <<clients, connections, services, cycles, captured, ctl, last, trace,
          returned, accepted, rts, tasks, now, running, joiner, fired, pace>>

driver == <<rts, tasks, now, running, joiner, fired, pace>>

engine == <<clients, connections, services, cycles, captured, ctl>>

-----------------------------------------------------------------------------
(* Bounds of the model *)

MaxConnections == 2
MaxServices == 2
MaxCycles == 2

(* Port.value defaults to None; port values proper are naturals. *)
None == -1

-----------------------------------------------------------------------------
(* Python helpers *)

Range(s) == {s[i] : i \in DOMAIN s}

Last(s) == s[Len(s)]

Take(s, n) == SubSeq(s, 1, n)

InsertAt(s, k, x) == SubSeq(s, 1, k) \o <<x>> \o SubSeq(s, k + 1, Len(s))

Max(a, b) == IF a >= b THEN a ELSE b

(* bisect.bisect_right on a sorted list of numbers, 0-based result. *)
RECURSIVE BisectRight(_, _, _, _)
BisectRight(a, x, lo, hi) ==
    IF lo < hi
    THEN LET mid == (lo + hi) \div 2
         IN  IF x < a[mid + 1]
             THEN BisectRight(a, x, lo, mid)
             ELSE BisectRight(a, x, mid + 1, hi)
    ELSE lo

(* utility.TimeSeries.get: the value of the right-most time point <= t. *)
TimeSeriesGet(ts, t) ==
    LET index == Max(0, BisectRight(ts.time, t, 0, Len(ts.time)) - 1)
    IN  IF index = Len(ts.time) THEN Last(ts.values) ELSE ts.values[index + 1]

-----------------------------------------------------------------------------
(* Devices and ports *)

Port(n, v) == [name |-> n, value |-> v]

(* Client.__init__: {p.name: p for p in ports}; a later port of the same   *)
(* name replaces an earlier one.                                           *)
PortsOf(ports) ==
    [n \in {ports[i].name : i \in DOMAIN ports} |->
        LET i == CHOOSE j \in DOMAIN ports :
                    /\ ports[j].name = n
                    /\ \A k \in DOMAIN ports : ports[k].name = n => k <= j
        IN  ports[i].value]

Client(name, ports, controller) ==
    [name |-> name, ports |-> PortsOf(ports), controller |-> controller]

Names(cs) == {cs[i].name : i \in DOMAIN cs}

HasDevice(cs, name) == name \in Names(cs)

IndexOf(cs, name) == CHOOSE i \in DOMAIN cs : cs[i].name = name

HasPort(cs, device, port) ==
    /\ HasDevice(cs, device)
    /\ port \in DOMAIN cs[IndexOf(cs, device)].ports

PortValue(cs, ref) == cs[IndexOf(cs, ref[1])].ports[ref[2]]

SetPort(cs, ref, v) ==
    [cs EXCEPT ![IndexOf(cs, ref[1])].ports[ref[2]] = v]

Connection(sender, receiver) == [sender |-> sender, receiver |-> receiver]

(* Server._get_port: the exception raised, or "ok". *)
GetPortErr(cs, device, port) ==
    IF ~HasDevice(cs, device) THEN "NoSuchDevice"
    ELSE IF port \notin DOMAIN cs[IndexOf(cs, device)].ports THEN "NoSuchPort"
    ELSE "ok"

-----------------------------------------------------------------------------
(* Services (services.py).  A service object is [cls, id, values]; id is   *)
(* the identity of the Python object, values the constructor argument of   *)
(* ModifyPorts flattened to <<[client, port, ts], ...>> in dict order.     *)

ModifyPorts(id, values) == [cls |-> "ModifyPorts", id |-> id, values |-> values]

CaptureAll(id) == [cls |-> "CaptureAll", id |-> id, values |-> <<>>]

TimeSeries(time, values) == [time |-> time, values |-> values]

Entry(client, port, ts) == [client |-> client, port |-> port, ts |-> ts]

(* ModifyPorts.execute: clients[client_name] raises KeyError for a missing *)
(* device, client.ports.get(port).value = ... raises AttributeError for a  *)
(* missing port; writes made before the failure stay.                      *)
RECURSIVE ModifyPortsExecute(_, _, _)
ModifyPortsExecute(values, cs, cyc) ==
    IF values = <<>> THEN [err |-> "ok", clients |-> cs]
    ELSE LET e == Head(values)
         IN  IF ~HasDevice(cs, e.client) THEN [err |-> "KeyError", clients |-> cs]
             ELSE IF ~HasPort(cs, e.client, e.port)
             THEN [err |-> "AttributeError", clients |-> cs]
             ELSE ModifyPortsExecute(
                      Tail(values),
                      SetPort(cs, <<e.client, e.port>>, TimeSeriesGet(e.ts, cyc)),
                      cyc)

(* CaptureAll.execute: appends the value of every port of every device to  *)
(* the list kept under (device name, port name).                           *)
CaptureAllExecute(data, cs) ==
    LET keys == {<<cs[i].name, p>> : i \in DOMAIN cs, p \in UNION {DOMAIN cs[j].ports : j \in DOMAIN cs}}
        live == {k \in keys : HasPort(cs, k[1], k[2])}
    IN  [k \in DOMAIN data \cup live |->
            (IF k \in DOMAIN data THEN data[k] ELSE <<>>)
            \o (IF k \in live THEN <<PortValue(cs, k)>> ELSE <<>>)]

(* s.execute(self._clients, self._connections, self._state) *)
ServiceExecute(svc, cs, capt, cyc) ==
    IF svc.cls = "ModifyPorts"
    THEN LET r == ModifyPortsExecute(svc.values, cs, cyc)
         IN  [err |-> r.err, clients |-> r.clients, captured |-> capt]
    ELSE [err |-> "ok", clients |-> cs,
          captured |-> [capt EXCEPT ![svc.id] = CaptureAllExecute(@, cs)]]

-----------------------------------------------------------------------------
(* Controllers.  A controller is [cls, arg]:                               *)
(*   "None"        no controller (controller=None)                         *)
(*   "Write"       a user subclass of AbstractController whose             *)
(*                 execute(ports, state) does                              *)
(*                 ports[arg].value = state.cycles + 1                     *)
(*   "Raise"       a user subclass whose execute(ports, state) raises      *)
(*   "Controller"  controllers.Controller(add_two), add_two of the tests   *)
(*   "Recorder"    controllers.Recorder()                                  *)
(*   "LookupTable" controllers.LookupTable({arg: ([0, 1, 2], [3, 4, 5])})  *)

Controller(cls, arg) == [cls |-> cls, arg |-> arg]

NoController == Controller("None", "")

(* The table of the LookupTable of the tests. *)
TableTime == <<0, 1, 2>>

TableValues == <<3, 4, 5>>

(* bisect.bisect_left on a sorted list of numbers, 0-based result. *)
RECURSIVE BisectLeft(_, _, _, _)
BisectLeft(a, x, lo, hi) ==
    IF lo < hi
    THEN LET mid == (lo + hi) \div 2
         IN  IF a[mid + 1] < x
             THEN BisectLeft(a, x, mid + 1, hi)
             ELSE BisectLeft(a, x, lo, mid)
    ELSE lo

(* controllers._TimeSeries.get *)
PrivateTimeSeriesGet(ts, t) ==
    LET index == BisectLeft(ts.time, t, 0, Len(ts.time))
    IN  IF index = Len(ts.time) THEN Last(ts.values) ELSE ts.values[index + 1]

(* TRUE when execute of the class takes (ports, state), as                 *)
(* AbstractController.execute does; the classes of controllers.py define   *)
(* execute(self, ports).                                                   *)
TakesState(cls) == cls \in {"Write", "Raise"}

(* Recorder.execute(ports) *)
RecorderBody(ports, own) ==
    [err |-> "ok", ports |-> ports,
     own |-> [data |-> [p \in DOMAIN own.data \cup DOMAIN ports |->
                          (IF p \in DOMAIN own.data THEN own.data[p] ELSE <<>>)
                          \o (IF p \in DOMAIN ports THEN <<ports[p]>> ELSE <<>>)],
              cycles |-> own.cycles + 1]]

(* LookupTable.execute(ports): self._values[p.name] raises KeyError for a  *)
(* port that has no table.                                                 *)
LookupTableBody(arg, ports, own) ==
    IF \E p \in DOMAIN ports : p # arg
    THEN [err |-> "KeyError", ports |-> ports, own |-> own]
    ELSE [err |-> "ok",
          ports |-> [p \in DOMAIN ports |->
                       PrivateTimeSeriesGet(TimeSeries(TableTime, TableValues), own.cycles)],
          own |-> [own EXCEPT !.cycles = @ + 1]]

(* The body of execute, once the call has bound its arguments. *)
ControllerBody(c, ports, own, cyc) ==
    CASE c.cls = "Write" ->
            IF c.arg \in DOMAIN ports
            THEN [err |-> "ok", ports |-> [ports EXCEPT ![c.arg] = cyc + 1], own |-> own]
            ELSE [err |-> "KeyError", ports |-> ports, own |-> own]
      [] c.cls = "Raise" -> [err |-> "RuntimeError", ports |-> ports, own |-> own]
      [] c.cls = "Recorder" -> RecorderBody(ports, own)
      [] c.cls = "LookupTable" -> LookupTableBody(c.arg, ports, own)
         \* Controller.execute calls self._fn(ports); add_two takes (ports, _)
      [] OTHER -> [err |-> "TypeError", ports |-> ports, own |-> own]

(* self._controller.execute(self._ports, state): two positional arguments; *)
(* an execute(self, ports) raises TypeError before its body runs.          *)
ControllerExecute(c, ports, own, cyc) ==
    IF TakesState(c.cls)
    THEN ControllerBody(c, ports, own, cyc)
    ELSE [err |-> "TypeError", ports |-> ports, own |-> own]

-----------------------------------------------------------------------------
(* Server.next_cycle *)

Step(kind, idx) == [kind |-> kind, idx |-> idx]

(* The services taken from the start of the list to its end. *)
MutForwardSteps(svcs, cs, conns) ==
    [i \in 1..Len(svcs) |-> [kind |-> "service", idx |-> i]]
    \o [i \in 1..Len(cs) |-> [kind |-> "fn", idx |-> i]]
    \o [i \in 1..Len(conns) |-> [kind |-> "transfer", idx |-> i]]
    \o <<[kind |-> "inc", idx |-> 0]>>

(* The transfers moved in front of the controllers. *)
MutCycleSteps(svcs, cs, conns) ==
    [i \in 1..Len(svcs) |-> [kind |-> "service", idx |-> Len(svcs) + 1 - i]]
    \o [i \in 1..Len(conns) |-> [kind |-> "transfer", idx |-> i]]
    \o [i \in 1..Len(cs) |-> [kind |-> "fn", idx |-> i]]
    \o <<[kind |-> "inc", idx |-> 0]>>

(* The steps of one call, in program order: the services from the end of   *)
(* the list to its start, Client.fn of every device in registration order, *)
(* transfer of every connection in list order, then the counter.           *)
(* The transfers taken from the newest connection to the oldest. *)
MutNewestFirstSteps(svcs, cs, conns) ==
    [i \in 1..Len(svcs) |-> Step("service", Len(svcs) + 1 - i)]
    \o [i \in 1..Len(cs) |-> Step("fn", i)]
    \o [i \in 1..Len(conns) |-> Step("transfer", Len(conns) + 1 - i)]
    \o <<Step("inc", 0)>>

CycleSteps(svcs, cs, conns) ==
    [i \in 1..Len(svcs) |-> Step("service", Len(svcs) + 1 - i)]
    \o [i \in 1..Len(cs) |-> Step("fn", i)]
    \o [i \in 1..Len(conns) |-> Step("transfer", i)]
    \o <<Step("inc", 0)>>

(* What trace records of a step: the ports the controller was given as it  *)
(* found them (seen) and as it left them (left).                           *)
Event(kind, idx, err, seen, left) ==
    [kind |-> kind, idx |-> idx, err |-> err, seen |-> seen, left |-> left]

(* The copy made in the wrong direction. *)
MutTransfer(cs, c) == SetPort(cs, c.sender, PortValue(cs, c.receiver))

(* Connection.transfer *)
Transfer(cs, c) == SetPort(cs, c.receiver, PortValue(cs, c.sender))

(* The increment left out. *)
MutNextCount(c) == c

(* The counter after the increment that ends a cycle. *)
NextCount(c) == c + 1

(* Client.fn: nothing without a controller, else controller.execute. *)
ClientFn(st, i) ==
    LET d == st.clients[i]
    IN  IF d.controller.cls = "None" THEN st
        ELSE LET r == ControllerExecute(d.controller, d.ports, st.ctl[d.name], st.cycles)
             IN  [st EXCEPT !.clients[i].ports = r.ports,
                            !.ctl[d.name] = r.own,
                            !.err = r.err,
                            !.trace = Append(@, Event("controller", i, r.err, d.ports, r.ports))]

(* One step of the call applied to the state st of the call. *)
ApplyStep(step, st, svcs, conns) ==
    CASE step.kind = "service" ->
            LET r == ServiceExecute(svcs[step.idx][2], st.clients, st.captured, st.cycles)
            IN  [st EXCEPT !.clients = r.clients,
                           !.captured = r.captured,
                           !.err = r.err,
                           !.trace = Append(@, Event("service", step.idx, r.err, <<>>, <<>>))]
      [] step.kind = "fn" -> ClientFn(st, step.idx)
      [] step.kind = "transfer" ->
            [st EXCEPT !.clients = Transfer(@, conns[step.idx]),
                       !.trace = Append(@, Event("transfer", step.idx, "ok", <<>>, <<>>))]
      [] OTHER ->
            [st EXCEPT !.cycles = NextCount(@),
                       !.trace = Append(@, Event("inc", 0, "ok", <<>>, <<>>))]

(* The steps all run, whatever an earlier one raised. *)
RECURSIVE MutRunSteps(_, _, _, _)
MutRunSteps(steps, st, svcs, conns) ==
    IF steps = <<>> THEN st
    ELSE MutRunSteps(Tail(steps), ApplyStep(Head(steps), st, svcs, conns), svcs, conns)

(* The steps run in order; an exception ends the call at once. *)
RECURSIVE RunSteps(_, _, _, _)
RunSteps(steps, st, svcs, conns) ==
    IF steps = <<>> \/ st.err # "ok" THEN st
    ELSE RunSteps(Tail(steps), ApplyStep(Head(steps), st, svcs, conns), svcs, conns)

(* The transfers all reading the ports as they were before the first. *)
RECURSIVE MutCopyFrom(_, _, _)
MutCopyFrom(conns, snapshot, cs) ==
    IF conns = <<>> THEN cs
    ELSE MutCopyFrom(Tail(conns), snapshot,
                     SetPort(cs, Head(conns).receiver,
                             PortValue(snapshot, Head(conns).sender)))

(* The transfer step as a copy from a snapshot. *)
MutSnapshotCycle ==
    LET st == RunSteps([i \in 1..Len(services) |-> Step("service", Len(services) + 1 - i)]
                           \o [i \in 1..Len(clients) |-> Step("fn", i)],
                       [clients |-> clients, captured |-> captured, ctl |-> ctl,
                        cycles |-> cycles, trace |-> <<>>, err |-> "ok"],
                       services, connections)
    IN  IF st.err # "ok" THEN st
        ELSE [st EXCEPT !.clients = MutCopyFrom(connections, st.clients, st.clients),
                        !.cycles = NextCount(@)]

RunCycle ==
    RunSteps(CycleSteps(services, clients, connections),
             [clients |-> clients, captured |-> captured, ctl |-> ctl,
              cycles |-> cycles, trace |-> <<>>, err |-> "ok"],
             services, connections)

Called(op, err) == [op |-> op, err |-> err]

(* The length of the longest list a CaptureAll object holds. *)
Longest(capt) ==
    LET lens == {0} \cup {Len(capt[i][k]) : i \in DOMAIN capt, k \in UNION {DOMAIN capt[j] : j \in DOMAIN capt}}
    IN  CHOOSE n \in lens : \A m \in lens : m <= n

(* What a next_cycle call does to the server. *)
CycleEffect ==
    /\ LET r == RunCycle
       IN  /\ clients' = r.clients
           /\ captured' = r.captured
           /\ ctl' = r.ctl
           /\ cycles' = r.cycles
           /\ trace' = r.trace
           /\ last' = Called("next_cycle", r.err)
           /\ returned' = IF r.err = "ok" THEN returned + 1 ELSE returned
    /\ UNCHANGED <<connections, services, accepted>>

NextCycle(limit) ==
    /\ cycles < limit
    /\ Longest(captured) < limit
    /\ CycleEffect
    /\ UNCHANGED driver

-----------------------------------------------------------------------------
(* Server.add_device *)

(* The duplicate check left out. *)
MutAddDeviceErr(cs, name) == "ok"

AddDeviceErr(cs, name) ==
    IF HasDevice(cs, name) THEN "DuplicateDeviceError" ELSE "ok"

AddDevice(name, ports, controller) ==
    /\ LET e == AddDeviceErr(clients, name)
       IN  /\ clients' = IF e = "ok"
                         THEN Append(clients, Client(name, ports, controller))
                         ELSE clients
           /\ last' = Called("add_device", e)
    /\ trace' = <<>>
    /\ UNCHANGED <<connections, services, cycles, captured, ctl, returned, accepted>>
    /\ UNCHANGED driver

-----------------------------------------------------------------------------
(* Server.add_connection *)

Request(sd, sp, rd, rp) == [sd |-> sd, sp |-> sp, rd |-> rd, rp |-> rp]

(* The sender is resolved first; the receiver only if that succeeded. *)
AddConnectionErr(cs, q) ==
    LET s == GetPortErr(cs, q.sd, q.sp)
    IN  IF s # "ok" THEN s ELSE GetPortErr(cs, q.rd, q.rp)

(* A connection is appended once both ports are resolved, so a partially  *)
(* resolved request appends nothing.                                       *)
MutConnect(conns, cs, q) ==
    IF GetPortErr(cs, q.sd, q.sp) = "ok"
    THEN Append(conns, Connection(<<q.sd, q.sp>>, <<q.rd, q.rp>>))
    ELSE conns

(* The connection list the call leaves. *)
Connect(conns, cs, q) ==
    IF AddConnectionErr(cs, q) = "ok"
    THEN Append(conns, Connection(<<q.sd, q.sp>>, <<q.rd, q.rp>>))
    ELSE conns

AddConnection(q) ==
    /\ Len(connections) < MaxConnections
    /\ LET e == AddConnectionErr(clients, q)
       IN  /\ connections' = Connect(connections, clients, q)
           /\ accepted' = IF e = "ok" THEN Append(accepted, q) ELSE accepted
           /\ last' = Called("add_connection", e)
    /\ trace' = <<>>
    /\ UNCHANGED <<clients, services, cycles, captured, ctl, returned>>
    /\ UNCHANGED driver

-----------------------------------------------------------------------------
(* Server.add_service: bisect.insort(self._services, (priority, service))  *)

(* (priority, service) < (priority2, service2) as Python compares tuples:  *)
(* the first items that differ decide; two distinct service objects of     *)
(* equal priority are compared with <, which no service class defines.     *)
TupleLess(x, y) ==
    IF x[1] # y[1] THEN (IF x[1] < y[1] THEN "lt" ELSE "ge")
    ELSE IF x[2].id = y[2].id THEN "ge"
    ELSE "TypeError"

(* bisect_right over the tuples: the 0-based insertion index, or -1 when   *)
(* a comparison raised TypeError.                                          *)
RECURSIVE InsortIndex(_, _, _, _)
InsortIndex(a, x, lo, hi) ==
    IF lo < hi
    THEN LET mid == (lo + hi) \div 2
             c == TupleLess(x, a[mid + 1])
         IN  IF c = "TypeError" THEN -1
             ELSE IF c = "lt" THEN InsortIndex(a, x, lo, mid)
             ELSE InsortIndex(a, x, mid + 1, hi)
    ELSE lo

AddService(service, priority) ==
    /\ Len(services) < MaxServices
    /\ LET k == InsortIndex(services, <<priority, service>>, 0, Len(services))
       IN  /\ services' = IF k < 0 THEN services
                          ELSE InsertAt(services, k, <<priority, service>>)
           /\ last' = Called("add_service", IF k < 0 THEN "TypeError" ELSE "ok")
    /\ trace' = <<>>
    /\ UNCHANGED <<clients, connections, cycles, captured, ctl, returned, accepted>>
    /\ UNCHANGED driver

-----------------------------------------------------------------------------
(* RealTimeServer *)

(* self._grain = duration / 1000.0 *)
GrainsPerFrame == 1000

(* self._precision = self._grain / 2 *)
PrecisionsPerGrain == 2

(* A frame duration d > 0, in time units: its precision d/2000 is 1. *)
Frame == GrainsPerFrame * PrecisionsPerGrain

server == <<clients, connections, services, cycles, captured, ctl, trace,
            returned, accepted>>

(* No RealTimeServer has been constructed. *)
NoDriver ==
    [built |-> FALSE, duration |-> 0, grain |-> 0, precision |-> 0,
     start_time |-> None, event |-> FALSE]

(* RealTimeServer.__init__ with a duration that is not negative. *)
RealTimeServer(duration) ==
    LET grain == duration \div GrainsPerFrame
    IN  [built |-> TRUE, duration |-> duration, grain |-> grain,
         precision |-> grain \div PrecisionsPerGrain,
         start_time |-> None, event |-> FALSE]

Construct(duration) ==
    /\ ~rts.built
    /\ IF duration < 0
       THEN /\ rts' = rts
            /\ last' = Called("RealTimeServer", "InvalidDuration")
       ELSE /\ rts' = RealTimeServer(duration)
            /\ last' = Called("RealTimeServer", "ok")
    /\ UNCHANGED <<server, tasks, now, running, joiner, fired, pace>>

(* The task asyncio.create_task(self.serve()) returns: serve has not run. *)
NewTask ==
    [pc |-> "created", cycles |-> 0, start_time |-> None, wake |-> None, err |-> "ok"]

(* start clears the flag before it creates the task. *)
MutStart(limit) ==
    /\ rts.built
    /\ running = 0
    /\ Len(tasks) < limit
    /\ rts' = [rts EXCEPT !.start_time = now, !.event = FALSE]
    /\ tasks' = Append(tasks, NewTask)
    /\ UNCHANGED <<server, last, now, running, joiner, fired, pace>>

(* RealTimeServer.start *)
Start(limit) ==
    /\ rts.built
    /\ running = 0
    /\ Len(tasks) < limit
    /\ rts' = [rts EXCEPT !.start_time = now]
    /\ tasks' = Append(tasks, NewTask)
    /\ UNCHANGED <<server, last, now, running, joiner, fired, pace>>

(* asyncio.Event.set *)
Set(event) == TRUE

(* RealTimeServer.stop *)
Stop ==
    /\ rts.built
    /\ running = 0
    /\ rts' = [rts EXCEPT !.event = Set(@)]
    /\ UNCHANGED <<server, last, tasks, now, running, joiner, fired, pace>>

NotJoining == [state |-> "idle", task |-> 0, err |-> "ok"]

(* await task: returns once the task is done, raising what serve raised. *)
Settle(j, ts) ==
    IF j.state # "waiting" THEN j
    ELSE IF ts[j.task].pc = "done" THEN [j EXCEPT !.state = "returned"]
    ELSE IF ts[j.task].pc = "failed"
    THEN [j EXCEPT !.state = "raised", !.err = ts[j.task].err]
    ELSE j

(* await self._task: None cannot be awaited. *)
Await(ts) ==
    IF ts = <<>> THEN [state |-> "raised", task |-> 0, err |-> "TypeError"]
    ELSE Settle([state |-> "waiting", task |-> Len(ts), err |-> "ok"], ts)

(* RealTimeServer.join, up to its await. *)
Join ==
    /\ rts.built
    /\ running = 0
    /\ joiner.state # "waiting"
    /\ joiner' = Await(tasks)
    /\ UNCHANGED <<server, last, rts, tasks, now, running, fired, pace>>

(* RealTimeServer.join resumed: the awaited task is done. *)
JoinDone ==
    /\ running = 0
    /\ joiner.state = "waiting"
    /\ joiner' = Settle(joiner, tasks)
    /\ joiner' # joiner
    /\ UNCHANGED <<server, last, rts, tasks, now, running, fired, pace>>

(* serve awaits in the middle of a cycle as well. *)
MutYields(pc) == pc \in {"cycle", "sleeping", "done", "failed"}

(* Where serve gives up the event loop: at await asyncio.sleep and at its  *)
(* end.                                                                    *)
Yields(pc) == pc \in {"sleeping", "done", "failed"}

(* Task i may take its next step: it is running, or no task is and it has  *)
(* not finished.                                                           *)
Holds(i) ==
    \/ running = i
    \/ running = 0 /\ tasks[i].pc \notin {"done", "failed"}

Moved(i, task) ==
    /\ tasks' = [tasks EXCEPT ![i] = task]
    /\ running' = IF Yields(task.pc) THEN 0 ELSE i

(* serve, first run of the task: cycles = 0; start_time = self._timer() *)
Begin(i, cap) ==
    /\ tasks[i].pc = "created"
    /\ Holds(i)
    /\ fired < cap \/ rts.event
    /\ Moved(i, [tasks[i] EXCEPT !.pc = "top", !.cycles = 0, !.start_time = now])
    /\ UNCHANGED <<server, last, rts, now, joiner, fired, pace>>

(* await asyncio.sleep returns, the clock reading t. *)
Resumed(i, t, cap) ==
    /\ tasks[i].pc = "sleeping"
    /\ Holds(i)
    /\ fired < cap \/ rts.event
    /\ t >= now
    /\ now' = t
    /\ Moved(i, [tasks[i] EXCEPT !.pc = "top"])
    /\ UNCHANGED <<server, last, rts, joiner, fired>>

(* The task resumed, whatever the clock reads. *)
Resume(i, cap) == Resumed(i, now, cap) /\ UNCHANGED pace

(* The wake-ups on schedule so far: all of them, none since the last late. *)
OnSchedule == [ontime |-> TRUE, streak |-> 0]

Paced(p, late, most) ==
    IF late = 0
    THEN [p EXCEPT !.streak = IF @ < most THEN @ + 1 ELSE @]
    ELSE [ontime |-> FALSE, streak |-> 0]

(* The task resumed late after the grain it slept has passed. *)
WakeUp(i, late, cap, horizon) ==
    /\ tasks[i].wake + late <= horizon
    /\ Resumed(i, tasks[i].wake + late, cap)
    /\ pace' = Paced(pace, late, cap)

(* next_ = start_time + cycles * self._duration *)
Due(start_time, cyc, duration) == start_time + cyc * duration

(* The comparison without the precision. *)
MutIsDue(current, next_, precision) == current > next_

(* current > next_ - self._precision *)
IsDue(current, next_, precision) == current > next_ - precision

(* A cycle skipped. *)
MutTriggered(cyc) == cyc + 2

(* cycles += 1 *)
Triggered(cyc) == cyc + 1

(* The flag tested after the cycle of the iteration. *)
MutDecide(set, current, next_, precision) ==
    IF IsDue(current, next_, precision) THEN "cycle"
    ELSE IF set THEN "done"
    ELSE "sleep"

(* The flag never tested. *)
MutDecideDeaf(set, current, next_, precision) ==
    IF IsDue(current, next_, precision) THEN "cycle" ELSE "sleep"

(* One iteration of the while loop up to the call of next_cycle. *)
Decide(set, current, next_, precision) ==
    IF set THEN "done"
    ELSE IF IsDue(current, next_, precision) THEN "cycle"
    ELSE "sleep"

(* serve: the loop test, current = self._timer(), the comparison and       *)
(* cycles += 1.                                                            *)
Check(i) ==
    /\ tasks[i].pc = "top"
    /\ Holds(i)
    /\ LET t == tasks[i]
           pc == Decide(rts.event, now, Due(t.start_time, t.cycles, rts.duration),
                        rts.precision)
       IN  /\ Moved(i, [t EXCEPT !.pc = pc,
                                 !.cycles = IF pc = "cycle" THEN Triggered(@) ELSE @])
           /\ fired' = IF pc = "cycle" THEN fired + 1 ELSE fired
    /\ UNCHANGED <<server, last, rts, now, joiner, pace>>

(* The exception caught and the loop going on. *)
MutAfterCycle(err) == "sleep"

(* An exception of next_cycle leaves serve and ends the task. *)
AfterCycle(err) == IF err = "ok" THEN "sleep" ELSE "failed"

(* serve: self._server.next_cycle() *)
Cycle(i) ==
    /\ tasks[i].pc = "cycle"
    /\ Holds(i)
    /\ CycleEffect
    /\ Moved(i, [tasks[i] EXCEPT !.pc = AfterCycle(last'.err), !.err = last'.err])
    /\ UNCHANGED <<rts, now, joiner, fired, pace>>

(* serve: await asyncio.sleep(self._grain) *)
Sleep(i) ==
    /\ tasks[i].pc = "sleep"
    /\ Holds(i)
    /\ Moved(i, [tasks[i] EXCEPT !.pc = "sleeping", !.wake = now + rts.grain])
    /\ UNCHANGED <<server, last, rts, now, joiner, fired, pace>>

(* The clock advances. *)
Elapse(delta, horizon) ==
    /\ now + delta <= horizon
    /\ now' = now + delta
    /\ UNCHANGED <<server, last, rts, tasks, running, joiner, fired, pace>>

-----------------------------------------------------------------------------
(* The calls a program makes: the arguments are drawn from small sets. *)

DeviceNames == {"D", "E"}

PortNames == {"P", "Q"}

Template(ports, controller) == [ports |-> ports, controller |-> controller]

DeviceTemplates ==
    { Template(<<Port("P", 0), Port("Q", 0)>>, Controller("Write", "P")),
      Template(<<Port("Q", 0), Port("Q", None)>>, NoController),
      Template(<<Port("P", 0)>>, Controller("Controller", "")) }

Requests ==
    { Request("D", "P", "E", "Q"), Request("D", "Q", "D", "P"),
      Request("D", "Q", "E", "Q") }

Constant(v) == TimeSeries(<<0>>, <<v>>)

Services ==
    { ModifyPorts("S1", <<Entry("D", "P", Constant(7))>>),
      ModifyPorts("S2", <<Entry("D", "P", Constant(8))>>) }

Priorities == {1, 2}

(* The devices, connections and services of tests/test_quintain.py. *)
TestDeviceNames == {"add_two", "generator", "logger"}

CaptureIds == {"capture_all"}

NoData == [data |-> <<>>, cycles |-> 0]

Init ==
    /\ clients = <<>>
    /\ connections = <<>>
    /\ services = <<>>
    /\ cycles = 0
    /\ captured = [i \in CaptureIds |-> <<>>]
    /\ ctl = [d \in DeviceNames \cup TestDeviceNames |-> NoData]
    /\ last = Called("Server", "ok")
    /\ trace = <<>>
    /\ returned = 0
    /\ accepted = <<>>
    /\ rts = NoDriver
    /\ tasks = <<>>
    /\ now = 0
    /\ running = 0
    /\ joiner = NotJoining
    /\ fired = 0
    /\ pace = OnSchedule

Next ==
    \/ \E n \in DeviceNames, t \in DeviceTemplates : AddDevice(n, t.ports, t.controller)
    \/ \E q \in Requests : AddConnection(q)
    \/ \E s \in Services, p \in Priorities : AddService(s, p)
    \/ NextCycle(MaxCycles)

Spec == Init /\ [][Next]_vars

-----------------------------------------------------------------------------
(* Properties of the engine *)

IsCycle == last.op = "next_cycle"

Rank(kind) ==
    CASE kind = "service" -> 1
      [] kind = "controller" -> 2
      [] kind = "transfer" -> 3
      [] OTHER -> 4

Performed(kind) == {trace[i].idx : i \in {j \in DOMAIN trace : trace[j].kind = kind}}

WithController == {i \in DOMAIN clients : clients[i].controller.cls # "None"}

(* C1: the steps of every next_cycle call are taken in the order services  *)
(* (from the highest-priority end of the list down), controllers (in       *)
(* registration order), transfers (in creation order), counter: no step of *)
(* a later phase precedes a step of an earlier one and none is taken       *)
(* twice.  A call that returns normally has performed every service, the   *)
(* controller of every device that has one, every transfer and the         *)
(* increment; a call that raises stops at the step that raised.            *)
C1_CycleOrder ==
    IsCycle =>
        /\ \A i, j \in DOMAIN trace : i < j =>
              /\ Rank(trace[i].kind) <= Rank(trace[j].kind)
              /\ trace[i].kind = trace[j].kind =>
                    IF trace[i].kind = "service"
                    THEN trace[i].idx > trace[j].idx
                    ELSE trace[i].idx < trace[j].idx
        /\ \A i \in DOMAIN trace : trace[i].err # "ok" => i = Len(trace)
        /\ last.err = "ok" =>
              /\ Performed("service") = DOMAIN services
              /\ Performed("controller") = WithController
              /\ Performed("transfer") = DOMAIN connections
              /\ Last(trace).kind = "inc"
        /\ last.err # "ok" =>
              /\ trace # <<>>
              /\ Last(trace).err = last.err
              /\ Last(trace).kind \in {"service", "controller"}

(* A normal call with two services, two controllers and two transfers. *)
C1_Witness ==
    /\ IsCycle
    /\ last.err = "ok"
    /\ Len(services) = 2
    /\ Cardinality(WithController) = 2
    /\ Len(connections) = 2
    /\ Len(trace) = 7

(* C2: the counter equals the number of next_cycle calls that returned     *)
(* normally; such a call adds exactly 1 to it and no other call (a failed  *)
(* next_cycle, add_device, add_connection, add_service) changes it.        *)
C2_Counter ==
    [][/\ cycles = returned
       /\ cycles' = returned'
       /\ IF last'.op = "next_cycle" /\ last'.err = "ok"
          THEN cycles' = cycles + 1
          ELSE cycles' = cycles]_vars

C2_Witness ==
    /\ cycles = 2
    /\ returned = 2
    /\ last.op = "add_device"

(* C3: add_device with a registered name raises DuplicateDeviceError and   *)
(* changes nothing: the devices (the first registration among them), the   *)
(* connections, the services and the counter stay as they were.            *)
C3_DuplicateDevice ==
    [][last'.op = "add_device" =>
          \A n \in DeviceNames, t \in DeviceTemplates :
              (HasDevice(clients, n) /\ AddDevice(n, t.ports, t.controller)) =>
                  /\ last'.err = "DuplicateDeviceError"
                  /\ UNCHANGED engine]_vars

(* A duplicate registration was refused on a server that holds two devices *)
(* and a connection.                                                       *)
C3_Witness ==
    /\ last = Called("add_device", "DuplicateDeviceError")
    /\ Len(clients) = 2
    /\ connections # <<>>

(* C4: add_connection raises NoSuchDevice whenever the sender device or    *)
(* the receiver device is not registered, whatever the other endpoint is,  *)
(* and raises NoSuchPort only when the device of an endpoint is registered *)
(* and lacks the named port.                                               *)
C4_ErrorKinds ==
    [][\A q \in Requests :
          AddConnection(q) =>
              /\ (~HasDevice(clients, q.sd) \/ ~HasDevice(clients, q.rd))
                    => last'.err = "NoSuchDevice"
              /\ last'.err = "NoSuchPort" =>
                    \/ HasDevice(clients, q.sd) /\ ~HasPort(clients, q.sd, q.sp)
                    \/ HasDevice(clients, q.rd) /\ ~HasPort(clients, q.rd, q.rp)]_vars

Wired(conns, reqs) ==
    conns = [i \in DOMAIN reqs |->
                Connection(<<reqs[i].sd, reqs[i].sp>>, <<reqs[i].rd, reqs[i].rp>>)]

Resolved(conns, cs) ==
    \A i \in DOMAIN conns :
        /\ HasPort(cs, conns[i].sender[1], conns[i].sender[2])
        /\ HasPort(cs, conns[i].receiver[1], conns[i].receiver[2])

(* C5: the connection list is the list of the requests of the successful   *)
(* add_connection calls, in call order, each resolved to ports of          *)
(* registered devices; a failed add_connection changes no engine state.    *)
C5_Connections ==
    [][/\ Wired(connections, accepted) /\ Wired(connections', accepted')
       /\ Resolved(connections, clients) /\ Resolved(connections', clients')
       /\ (last'.op = "add_connection" /\ last'.err # "ok") => UNCHANGED engine
       /\ (last'.op = "add_connection" /\ last'.err = "ok") =>
             \A q \in Requests :
                 AddConnection(q) =>
                     /\ connections' = Append(connections,
                                              Connection(<<q.sd, q.sp>>, <<q.rd, q.rp>>))
                     /\ UNCHANGED <<clients, services, cycles, captured, ctl>>]_vars

(* D alone is registered and has both ports, one connection exists, and a  *)
(* request whose sender resolved failed on its receiver device.            *)
C5_Witness ==
    /\ last = Called("add_connection", "NoSuchDevice")
    /\ Names(clients) = {"D"}
    /\ HasPort(clients, "D", "P") /\ HasPort(clients, "D", "Q")
    /\ Len(connections) = 1

(* The counter value the steps of the last next_cycle call read. *)
During == IF last.err = "ok" THEN cycles - 1 ELSE cycles

Position(kind, idx) == CHOOSE i \in DOMAIN trace : trace[i].kind = kind /\ trace[i].idx = idx

(* The entries of service i of the list that write port p of device d. *)
WritesOf(i, d, p) ==
    {e \in Range(services[i][2].values) : e.client = d /\ e.port = p}

Writers(d, p) == {i \in DOMAIN services : WritesOf(i, d, p) # {}}

(* C6: of two services of different priority the one of higher priority    *)
(* executes first in every cycle, so a controller finds in a port that     *)
(* services write the value written by the writer of lowest priority: with *)
(* S1 of priority 2 and S2 of priority 1, the value of S2.                 *)
C6_Priority ==
    IsCycle =>
        /\ \A i, j \in Performed("service") :
              services[i][1] > services[j][1]
                  => Position("service", i) < Position("service", j)
        /\ \A k \in DOMAIN trace : trace[k].kind = "controller" =>
              LET d == clients[trace[k].idx].name
              IN  \A p \in DOMAIN trace[k].seen : \A j \in Writers(d, p) :
                      (\A i \in Writers(d, p) : services[j][1] <= services[i][1])
                          => \A e \in WritesOf(j, d, p) :
                                 trace[k].seen[p] = TimeSeriesGet(e.ts, During)

(* S1 has priority 2 and S2 priority 1; the controller of D found the 8    *)
(* of S2 in D.P.                                                           *)
C6_Witness ==
    /\ IsCycle
    /\ Len(services) = 2
    /\ services[1][1] = 1 /\ services[1][2].id = "S2"
    /\ services[2][1] = 2 /\ services[2][2].id = "S1"
    /\ \E k \in DOMAIN trace :
          /\ trace[k].kind = "controller"
          /\ clients[trace[k].idx].name = "D"
          /\ trace[k].seen["P"] = 8

Ascending(svcs) == \A i, j \in DOMAIN svcs : i < j => svcs[i][1] <= svcs[j][1]

(* C7: every add_service call succeeds and inserts (priority, service)     *)
(* after the entries of lower or equal priority and before those of higher *)
(* priority, so the list stays sorted ascending by priority with equal     *)
(* priorities in insertion order.                                          *)
C7_StableInsert ==
    [][\A s \in Services, p \in Priorities :
          AddService(s, p) =>
              /\ last'.err = "ok"
              /\ Ascending(services')
              /\ \E k \in 0..Len(services) :
                    /\ services' = InsertAt(services, k, <<p, s>>)
                    /\ \A i \in 1..k : services[i][1] <= p
                    /\ \A i \in (k + 1)..Len(services) : services[i][1] > p]_vars

(* The connections k from a port that the controller of its device wrote   *)
(* in the last call, being the only connection into their receiver.        *)
SingleHops ==
    {k \in DOMAIN connections :
        /\ \A m \in DOMAIN connections :
              connections[m].receiver = connections[k].receiver => m = k
        /\ \E i \in DOMAIN trace :
              /\ trace[i].kind = "controller"
              /\ clients[trace[i].idx].name = connections[k].sender[1]
              /\ clients[trace[i].idx].controller =
                    Controller("Write", connections[k].sender[2])}

WrittenBy(device) ==
    LET e == trace[CHOOSE i \in DOMAIN trace :
                      /\ trace[i].kind = "controller"
                      /\ clients[trace[i].idx].name = device]
    IN  e.left

(* C8 as claimed: when next_cycle returns, the receiver of a connection    *)
(* D.P -> E.Q that is the only connection into E.Q holds the value the     *)
(* controller of D wrote to D.P in that call.                              *)
C8_SingleHop ==
    (IsCycle /\ last.err = "ok") =>
        \A k \in SingleHops :
            PortValue(clients, connections[k].receiver)
                = WrittenBy(connections[k].sender[1])[connections[k].sender[2]]

(* C8 amended: the same, for a connection D.P -> E.Q before which no       *)
(* connection into D.P was created.                                        *)
C8_SingleHopUnfed ==
    (IsCycle /\ last.err = "ok") =>
        \A k \in SingleHops :
            (\A m \in 1..(k - 1) : connections[m].receiver # connections[k].sender)
                => PortValue(clients, connections[k].receiver)
                      = WrittenBy(connections[k].sender[1])[connections[k].sender[2]]

(* E was registered before D; D.P -> E.Q was created before a connection   *)
(* into D.P; after the second cycle E.Q holds the 2 written in that cycle. *)
C8_Witness ==
    /\ IsCycle /\ last.err = "ok"
    /\ Len(clients) = 2 /\ clients[1].name = "E" /\ clients[2].name = "D"
    /\ connections = <<Connection(<<"D", "P">>, <<"E", "Q">>),
                       Connection(<<"D", "Q">>, <<"D", "P">>)>>
    /\ 1 \in SingleHops
    /\ cycles = 2
    /\ PortValue(clients, <<"E", "Q">>) = 2

PerformedIn(tr, kind) == {tr[i].idx : i \in {j \in DOMAIN tr : tr[j].kind = kind}}

(* The events of tr that assigned port p of device i of the list: a       *)
(* service that executed and has an entry for it, the device's controller. *)
Assigned(tr, i, p) ==
    {k \in DOMAIN tr :
        \/ /\ tr[k].kind = "service" /\ tr[k].err = "ok"
           /\ WritesOf(tr[k].idx, clients[i].name, p) # {}
        \/ tr[k].kind = "controller" /\ tr[k].idx = i}

(* The value the event tr[k] left in port p, the counter being cyc. *)
AssignedValue(tr, k, i, p, cyc) ==
    IF tr[k].kind = "controller" THEN tr[k].left[p]
    ELSE LET e == CHOOSE x \in WritesOf(tr[k].idx, clients[i].name, p) : TRUE
         IN  TimeSeriesGet(e.ts, cyc)

(* C11: a next_cycle call in which a service or a controller raises ends   *)
(* at that step with that exception: the counter and the number of normal  *)
(* returns are unchanged, the steps taken are exactly those ordered up to  *)
(* the raising one (no later service, no later controller, no transfer,    *)
(* no increment), and every port holds what the last step taken that       *)
(* assigned it left there, or its old value (no rollback).  A call that    *)
(* returns normally reads the counter as the failed call left it: a        *)
(* controller writing the cycle number plus one writes cycles + 1.         *)
C11_FailurePropagates ==
    [][(last'.op = "next_cycle" /\ NextCycle(MaxCycles)) =>
          /\ last'.err # "ok" =>
                /\ cycles' = cycles
                /\ returned' = returned
                /\ trace' # <<>>
                /\ Last(trace').err = last'.err
                /\ \A k \in 1..(Len(trace') - 1) : trace'[k].err = "ok"
                /\ PerformedIn(trace', "transfer") = {}
                /\ PerformedIn(trace', "inc") = {}
                /\ IF Last(trace').kind = "service"
                   THEN /\ PerformedIn(trace', "service")
                             = {i \in DOMAIN services : i >= Last(trace').idx}
                        /\ PerformedIn(trace', "controller") = {}
                   ELSE /\ PerformedIn(trace', "service") = DOMAIN services
                        /\ PerformedIn(trace', "controller")
                             = {i \in WithController : i <= Last(trace').idx}
                /\ \A i \in DOMAIN clients : \A p \in DOMAIN clients[i].ports :
                      LET ks == Assigned(trace', i, p)
                      IN  clients'[i].ports[p] =
                              IF ks = {} THEN clients[i].ports[p]
                              ELSE AssignedValue(trace',
                                       CHOOSE k \in ks : \A m \in ks : m <= k,
                                       i, p, cycles)
          /\ last'.err = "ok" =>
                /\ cycles' = cycles + 1
                /\ \A k \in DOMAIN trace' :
                      (/\ trace'[k].kind = "controller"
                       /\ clients[trace'[k].idx].controller.cls = "Write")
                          => trace'[k].left[clients[trace'[k].idx].controller.arg]
                                = cycles + 1]_vars

(* After one normal cycle a call failed at the controller of the second    *)
(* device: the 7 a service wrote to D.P and the 2 the controller of E      *)
(* wrote to E.P before the failure are in place, the counter is still 1.   *)
C11_Witness ==
    /\ IsCycle /\ last.err = "TypeError"
    /\ cycles = 1 /\ returned = 1
    /\ Len(clients) = 2 /\ clients[1].name = "E" /\ clients[2].name = "D"
    /\ Last(trace).kind = "controller" /\ Last(trace).idx = 2
    /\ Len(trace) = 3
    /\ PortValue(clients, <<"D", "P">>) = 7
    /\ PortValue(clients, <<"E", "P">>) = 2

(* Connection k is the one created last among those into its receiver. *)
LastInto(k) ==
    \A m \in DOMAIN connections :
        connections[m].receiver = connections[k].receiver => m <= k

(* C19: every connection is transferred in every cycle, in creation order, *)
(* however many connections share its receiver or its sender.  When        *)
(* next_cycle returns, a port that connections lead into holds the value   *)
(* of the sender of the connection created last among them (no connection  *)
(* created later leading into that sender); the receivers of two           *)
(* connections from one sender, each the last into its receiver, hold the  *)
(* same value (no connection created between the two leading into the      *)
(* sender).                                                                *)
C19_LastAppliedWins ==
    (IsCycle /\ last.err = "ok") =>
        /\ Performed("transfer") = DOMAIN connections
        /\ \A j, k \in DOMAIN connections :
              j < k => Position("transfer", j) < Position("transfer", k)
        /\ \A k \in DOMAIN connections :
              (/\ LastInto(k)
               /\ \A m \in DOMAIN connections :
                     connections[m].receiver = connections[k].sender => m < k)
                  => PortValue(clients, connections[k].receiver)
                        = PortValue(clients, connections[k].sender)
        /\ \A j, k \in DOMAIN connections :
              (/\ j < k
               /\ connections[j].sender = connections[k].sender
               /\ LastInto(j) /\ LastInto(k)
               /\ \A m \in DOMAIN connections :
                     connections[m].receiver = connections[k].sender
                         => (m < j \/ m > k))
                  => PortValue(clients, connections[j].receiver)
                        = PortValue(clients, connections[k].receiver)

(* D.Q -> E.Q was created before D.P -> E.Q: after the first cycle E.Q     *)
(* holds the 1 of D.P, not the 0 of D.Q.                                   *)
C19_Witness ==
    /\ IsCycle /\ last.err = "ok"
    /\ connections = <<Connection(<<"D", "Q">>, <<"E", "Q">>),
                       Connection(<<"D", "P">>, <<"E", "Q">>)>>
    /\ PortValue(clients, <<"D", "P">>) = 1
    /\ PortValue(clients, <<"D", "Q">>) = 0
    /\ PortValue(clients, <<"E", "Q">>) = 1

-----------------------------------------------------------------------------
(* Chains of connections: a device whose controller writes the port the    *)
(* chain starts from and leaves the port in the middle alone.              *)

ChainTemplates ==
    { Template(<<Port("P", 0), Port("Q", 0)>>, Controller("Write", "Q")),
      Template(<<Port("Q", 0)>>, NoController) }

NextChain ==
    \/ \E n \in DeviceNames, t \in ChainTemplates : AddDevice(n, t.ports, t.controller)
    \/ \E q \in Requests : AddConnection(q)
    \/ \E s \in Services : AddService(s, 1)
    \/ NextCycle(MaxCycles)

SpecChain == Init /\ [][NextChain]_vars

(* Connection j is the only connection into its receiver. *)
Alone(j) ==
    \A m \in DOMAIN connections :
        connections[m].receiver = connections[j].receiver => m = j

ControllerWrites(ref) ==
    \E i \in DOMAIN clients :
        /\ clients[i].name = ref[1]
        /\ clients[i].controller = Controller("Write", ref[2])

(* Connections j: A.p -> B.q and k: B.q -> C.r, the only ones into B.q and *)
(* C.r, none leading into A.p, and no controller writing B.q.              *)
Chain(j, k) ==
    /\ j # k
    /\ connections[j].receiver = connections[k].sender
    /\ connections[j].sender # connections[j].receiver
    /\ connections[k].receiver # connections[j].sender
    /\ connections[k].receiver # connections[k].sender
    /\ Alone(j) /\ Alone(k)
    /\ \A m \in DOMAIN connections : connections[m].receiver # connections[j].sender
    /\ ~ControllerWrites(connections[j].receiver)

(* What a normal call does to the chain j, k. *)
Chained(j, k) ==
    /\ j < k =>
          PortValue(clients', connections[k].receiver)
              = PortValue(clients', connections[j].sender)
    /\ k < j =>
          /\ PortValue(clients', connections[k].receiver)
                = PortValue(clients, connections[j].receiver)
          /\ (IsCycle /\ last.err = "ok") =>
                PortValue(clients', connections[k].receiver)
                    = PortValue(clients, connections[j].sender)

(* C20 as claimed: in a chain A.p -> B.q, B.q -> C.r with no controller    *)
(* writing B.q, if A.p -> B.q was created first C.r holds the value of A.p *)
(* when the call returns; if B.q -> C.r was created first C.r holds the    *)
(* value B.q had when the call began, which after a cycle is the value     *)
(* A.p had then (one cycle behind).                                        *)
C20_Chain ==
    [][(NextCycle(MaxCycles) /\ last'.err = "ok") =>
          \A j, k \in DOMAIN connections : Chain(j, k) => Chained(j, k)]_vars

(* C20 amended: the same, for a chain whose middle port B.q no service     *)
(* writes either.                                                          *)
C20_ChainUnwritten ==
    [][(NextCycle(MaxCycles) /\ last'.err = "ok") =>
          \A j, k \in DOMAIN connections :
              (Chain(j, k) /\ Writers(connections[j].receiver[1],
                                      connections[j].receiver[2]) = {})
                  => Chained(j, k)]_vars

(* D.P -> E.Q was created before D.Q -> D.P and nothing but the transfer   *)
(* writes D.P: after the second cycle D.Q and D.P hold 2 and E.Q the 1 of  *)
(* the first.                                                              *)
C20_Witness ==
    /\ IsCycle /\ last.err = "ok"
    /\ cycles = 2
    /\ connections = <<Connection(<<"D", "P">>, <<"E", "Q">>),
                       Connection(<<"D", "Q">>, <<"D", "P">>)>>
    /\ Chain(2, 1)
    /\ services = <<>>
    /\ PortValue(clients, <<"D", "Q">>) = 2
    /\ PortValue(clients, <<"D", "P">>) = 2
    /\ PortValue(clients, <<"E", "Q">>) = 1

-----------------------------------------------------------------------------
(* The driver and its callers: any clock that does not go back, tasks      *)
(* resumed whatever it reads.                                              *)

MaxStarts == 2
MaxFired == 2
MaxFrames == 3

Durations == {-Frame, 0, Frame}

DriverTemplates == { Template(<<Port("P", 0)>>, Controller("Controller", "")) }

TaskStep(i) ==
    /\ i \in DOMAIN tasks
    /\ \/ Begin(i, MaxFired)
       \/ Resume(i, MaxFired)
       \/ Check(i)
       \/ Cycle(i)
       \/ Sleep(i)

NextDriver ==
    \/ \E d \in Durations : Construct(d)
    \/ \E t \in DriverTemplates :
          running = 0 /\ clients = <<>> /\ AddDevice("D", t.ports, t.controller)
    \/ Start(MaxStarts)
    \/ Stop
    \/ Join
    \/ JoinDone
    \/ \E i \in 1..MaxStarts : TaskStep(i)
    \/ Elapse(Frame, Frame)

SpecDriver == Init /\ [][NextDriver]_vars

(* The event loop does not idle while a callback is ready: as long as a    *)
(* task can be run some task is run, and the caller whose awaited task is  *)
(* done is resumed.                                                        *)
SpecDriverFair ==
    /\ SpecDriver
    /\ WF_vars(\E i \in 1..MaxStarts : TaskStep(i))
    /\ WF_vars(JoinDone)

-----------------------------------------------------------------------------
(* The pacing of one loop whose wake-ups come a grain apart, or late. *)

(* A wake-up comes as the grain slept ends, or LateFrames frames late. *)
LateFrames == 2

Lateness == {0, LateFrames * Frame}

NextPacing ==
    \/ Construct(Frame)
    \/ Start(1)
    \/ \E i \in DOMAIN tasks :
          \/ Begin(i, MaxFrames + 1)
          \/ \E late \in Lateness : WakeUp(i, late, MaxFrames + 1, MaxFrames * Frame)
          \/ Check(i)
          \/ Cycle(i)
          \/ Sleep(i)

SpecPacing == Init /\ [][NextPacing]_vars

(* The clock's reading at the last wake-up of the first loop, less its     *)
(* start_time.                                                             *)
Elapsed == now - tasks[1].start_time

(* The cycle numbers k whose threshold startTime + k*d - d/2000 the clock  *)
(* reading start_time + e exceeds.                                         *)
ThresholdsPassed(e) ==
    {k \in 0..(MaxFrames + 1) : e > k * rts.duration - rts.duration \div 2000}

Slept == tasks # <<>> /\ tasks[1].pc = "sleeping"

(* C12: with a frame duration d > 0 and every wake-up coming a grain       *)
(* d/1000 after the one before, when the loop is asleep the number of      *)
(* cycles fired is the number of k >= 0 with a clock reading above         *)
(* start_time + k*d - d/2000: the first wake-up fires cycle 0, cycle k is  *)
(* fired by the first wake-up whose reading exceeds its threshold; 1 cycle *)
(* has fired at elapsed time d/2 and 2 at 3d/2.  Whatever the wake-ups, no *)
(* cycle k is fired at a reading that does not exceed its threshold.       *)
C12_Pacing ==
    /\ []((Slept /\ pace.ontime) =>
             /\ fired = Cardinality(ThresholdsPassed(Elapsed))
             /\ fired >= 1
             /\ Elapsed = Frame \div 2 => fired = 1
             /\ Elapsed = (3 * Frame) \div 2 => fired = 2)
    /\ [][\A i \in DOMAIN tasks :
             fired' = fired + 1 /\ tasks'[i] # tasks[i] =>
                 now > tasks[i].start_time + tasks[i].cycles * rts.duration
                           - rts.duration \div 2000]_vars

(* Every wake-up came on time; a frame and a half after its start the loop *)
(* has fired two cycles.                                                   *)
C12_Witness ==
    /\ Slept
    /\ pace.ontime
    /\ rts.duration = Frame
    /\ Elapsed = (3 * Frame) \div 2
    /\ fired = 2

(* The tasks whose next_cycle call has begun and not ended. *)
InCycle == {i \in DOMAIN tasks : tasks[i].pc = "cycle"}

(* C13: stop() sets the flag and changes nothing else; no flag is set      *)
(* while a next_cycle call of the driver is under way, and such a call     *)
(* ends having taken every step of the cycle unless a step raised; a loop  *)
(* exits only from the test at the top of an iteration, the flag being     *)
(* set; once the flag is set and join() has returned no cycle is fired.    *)
C13_StopOnlySetsFlag ==
    /\ [][Stop => /\ rts' = [rts EXCEPT !.event = TRUE]
                  /\ UNCHANGED <<server, last, tasks, now, running, joiner, fired>>]_vars
    /\ [][\A i \in InCycle :
             /\ rts' = rts
             /\ tasks'[i] # tasks[i] =>
                   /\ tasks'[i].pc \in {"sleep", "failed"}
                   /\ last'.op = "next_cycle"
                   /\ tasks'[i].pc = "sleep" =>
                         /\ last'.err = "ok"
                         /\ PerformedIn(trace', "service") = DOMAIN services
                         /\ PerformedIn(trace', "controller") = WithController
                         /\ PerformedIn(trace', "transfer") = DOMAIN connections
                         /\ Last(trace').kind = "inc"
                         /\ cycles' = cycles + 1]_vars
    /\ [][\A i \in DOMAIN tasks :
             (tasks'[i].pc = "done" /\ tasks[i].pc # "done")
                 => (tasks[i].pc = "top" /\ rts.event)]_vars
    /\ [][(rts.event /\ joiner.state = "returned") => fired' = fired]_vars

(* A frame after the start the loop has exited with one cycle fired, the   *)
(* second being due, and join() has returned.                              *)
C13_Witness ==
    /\ rts.event
    /\ joiner.state = "returned"
    /\ rts.duration = Frame
    /\ now = Frame
    /\ fired = 1
    /\ Len(tasks) = 2
    /\ tasks[1].pc = "done" /\ tasks[1].cycles = 1
    /\ tasks[2].pc = "done"

(* The number of due times that have passed at the last wake-up. *)
Passed == Cardinality(ThresholdsPassed(Elapsed))

(* On-time wake-ups after which a loop has caught up with its schedule. *)
CatchUp == LateFrames

C15_ZeroDuration ==
    [][\A i \in DOMAIN tasks :
          (Check(i) /\ rts.duration = 0 /\ ~rts.event) => fired' = fired + 1]_vars

(* Task i alone takes the step, if one is taken: the other tasks, the      *)
(* driver object and the caller's join are as before.                      *)
OnlyStepOf(i) ==
    /\ Len(tasks') = Len(tasks)
    /\ \A j \in DOMAIN tasks : j # i => tasks'[j] = tasks[j]
    /\ UNCHANGED <<rts, joiner>>

(* C16: however the loops of the driver and the calls of start(), stop()   *)
(* and join() interleave, at most one next_cycle call is under way; from   *)
(* the resumption of a loop to its next sleep (or its end) no other loop   *)
(* and no caller takes a step, and while a cycle is under way the server   *)
(* changes only by that cycle ending.                                      *)
C16_NeverConcurrent ==
    /\ [](Cardinality(InCycle) <= 1)
    /\ [][running # 0 =>
             /\ OnlyStepOf(running)
             /\ running' \in {0, running}
             /\ running' = 0 => tasks'[running].pc \in {"sleeping", "done", "failed"}]_vars
    /\ [][\A i \in InCycle :
             /\ running = i
             /\ OnlyStepOf(i)
             /\ tasks'[i] = tasks[i] => UNCHANGED <<server, last, fired>>
             /\ tasks'[i] # tasks[i] => tasks'[i].pc \in {"sleep", "failed"}]_vars

(* Two loops were started and both fire: the first has fired a cycle and   *)
(* sleeps while the cycle of the second is under way.                      *)
C16_Witness ==
    /\ Len(tasks) = 2
    /\ tasks[1].pc = "sleeping" /\ tasks[1].cycles = 1
    /\ InCycle = {2}
    /\ running = 2
    /\ fired = 2

Failed == {i \in DOMAIN tasks : tasks[i].pc = "failed"}

(* C17: when a next_cycle call of a loop raises (a controller or service   *)
(* failed), the loop ends there with that exception and takes no further   *)
(* step, so it fires no later cycle; a join() awaiting that loop does not  *)
(* return normally: made afterwards it raises that exception at once, made *)
(* before it raises it when resumed.                                       *)
C17_FailureSurfaces ==
    /\ [][\A i \in InCycle :
             (tasks'[i] # tasks[i] /\ last'.err # "ok") =>
                 /\ tasks'[i].pc = "failed"
                 /\ tasks'[i].err = last'.err
                 /\ Last(trace').err = last'.err
                 /\ Last(trace').kind \in {"service", "controller"}]_vars
    /\ [][\A i \in Failed : tasks'[i] = tasks[i]]_vars
    /\ [][(Join /\ Len(tasks) \in Failed) =>
             joiner' = [state |-> "raised", task |-> Len(tasks),
                        err |-> tasks[Len(tasks)].err]]_vars
    /\ [](joiner.task \in Failed =>
             /\ joiner.state \in {"waiting", "raised"}
             /\ joiner.state = "raised" => joiner.err = tasks[joiner.task].err)

(* The loop fired a cycle that returned, a device whose controller raises  *)
(* was added, the second cycle raised TypeError: join() raised it.         *)
C17_Witness ==
    /\ Len(tasks) = 1
    /\ tasks[1].pc = "failed" /\ tasks[1].cycles = 2
    /\ cycles = 1
    /\ fired = 2
    /\ last = Called("next_cycle", "TypeError")
    /\ joiner = [state |-> "raised", task |-> 1, err |-> "TypeError"]

Exited == \A i \in DOMAIN tasks : tasks[i].pc \in {"done", "failed"}

(* C18: the event loop running every ready task, once stop() has set the   *)
(* flag every loop started eventually exits, and a join() waiting then     *)
(* eventually returns or raises; a join() made when the awaited loop has   *)
(* exited returns at once.  A loop exits normally only with the flag set,  *)
(* so without stop() no join() returns.                                    *)
C18_Lifecycle ==
    /\ rts.event ~> Exited
    /\ (rts.event /\ joiner.state = "waiting") ~> joiner.state \in {"returned", "raised"}
    /\ [][(Join /\ tasks # <<>> /\ Last(tasks).pc = "done")
             => joiner'.state = "returned"]_vars
    /\ []((\E i \in DOMAIN tasks : tasks[i].pc = "done") => rts.event)
    /\ [](joiner.state = "returned" => rts.event)

(* join() was waiting for a loop that had fired a cycle when stop() was    *)
(* called: the loop has exited and join() has returned.                    *)
C18_Witness ==
    /\ rts.event
    /\ Len(tasks) = 1
    /\ tasks[1].pc = "done" /\ tasks[1].cycles = 1
    /\ tasks[1].wake # None
    /\ joiner = [state |-> "returned", task |-> 1, err |-> "ok"]
    /\ clients = <<>>

(* Loop i has not invoked next_cycle: it has not run yet, is at its first  *)
(* while test, or has returned from it.                                    *)
FreshIn(ts, i) ==
    /\ ts[i].pc \in {"created", "top", "done"}
    /\ ts[i].cycles = 0

Fresh(i) == FreshIn(tasks, i)

(* C21: no lifecycle call and no step of a loop clears the flag once       *)
(* stop() has set it, before the first start() as well.  A loop that       *)
(* start() launches with the flag set, and any loop that has invoked no    *)
(* next_cycle when the flag is set, never invokes next_cycle: its steps    *)
(* fire no cycle and leave the server as it is, and, the event loop        *)
(* running every ready task, it exits at its first while test.  A join()   *)
(* on such a loop awaits that loop until it is resumed, does not raise,    *)
(* and returns with the loop having fired zero cycles.                     *)
C21_NoRestart ==
    /\ [][rts.event => rts'.event]_vars
    /\ [][(rts.event /\ Start(MaxStarts)) => FreshIn(tasks', Len(tasks'))]_vars
    /\ [][rts.event =>
            \A i \in DOMAIN tasks :
                Fresh(i) =>
                    /\ FreshIn(tasks', i)
                    /\ tasks'[i] # tasks[i] => UNCHANGED <<server, last, fired>>]_vars
    /\ [][(rts.event /\ tasks # <<>> /\ Fresh(Len(tasks)) /\ Join) =>
            /\ joiner'.task = Len(tasks)
            /\ joiner'.state \in {"waiting", "returned"}]_vars
    /\ [][joiner.state = "waiting" => joiner'.task = joiner.task]_vars
    /\ rts.event ~> (\A i \in DOMAIN tasks : Fresh(i) => tasks[i].pc = "done")
    /\ (rts.event /\ joiner.state = "waiting" /\ Fresh(joiner.task))
          ~> (joiner.state = "returned" /\ Fresh(joiner.task))

(* With a frame of Frame units, whose first while test is always due, the  *)
(* first loop fired a cycle and exited on stop(); the second loop has      *)
(* exited without a cycle and join() on it has returned.                   *)
C21_Witness ==
    /\ rts.event /\ rts.duration = Frame
    /\ Len(tasks) = 2
    /\ tasks[1].pc = "done" /\ tasks[1].cycles = 1
    /\ tasks[2].pc = "done" /\ tasks[2].cycles = 0
    /\ fired = 1
    /\ joiner = [state |-> "returned", task |-> 2, err |-> "ok"]

-----------------------------------------------------------------------------
(* The programs of tests/test_quintain.py: TestServer.test_function and    *)
(* TestServer.test_with_services register their devices, connections and   *)
(* services and then call next_cycle five times.                           *)

TestCycles == 5

Device(name, ports, controller) ==
    [name |-> name, ports |-> ports, controller |-> controller]

TestDevices ==
    { Device("add_two", <<Port("number", 0), Port("result", 0)>>,
             Controller("Controller", "")),
      Device("generator", <<Port("number", 0)>>, Controller("LookupTable", "number")),
      Device("logger", <<Port("result", None)>>, Controller("Recorder", "")) }

TestRequests ==
    { Request("generator", "number", "add_two", "number"),
      Request("add_two", "result", "logger", "result") }

TestServices ==
    { ModifyPorts("modify_ports",
                  <<Entry("add_two", "number", TimeSeries(TableTime, TableValues))>>),
      CaptureAll("capture_all") }

TestPriorities == {0, 1}

NamesInOrder(cs) == [i \in DOMAIN cs |-> cs[i].name]

(* test_function, as wired before its first next_cycle. *)
PipelineWired ==
    /\ NamesInOrder(clients) = <<"add_two", "generator", "logger">>
    /\ connections = <<Connection(<<"generator", "number">>, <<"add_two", "number">>),
                       Connection(<<"add_two", "result">>, <<"logger", "result">>)>>
    /\ services = <<>>

(* test_with_services, as wired before its first next_cycle. *)
ServicesWired ==
    /\ NamesInOrder(clients) = <<"add_two">>
    /\ connections = <<>>
    /\ Len(services) = 2
    /\ services[1][1] = 0 /\ services[1][2].id = "capture_all"
    /\ services[2][1] = 1 /\ services[2][2].id = "modify_ports"

NextTests ==
    \/ \E d \in TestDevices : AddDevice(d.name, d.ports, d.controller)
    \/ \E q \in TestRequests : AddConnection(q)
    \/ \E s \in TestServices, p \in TestPriorities : AddService(s, p)
    \/ (PipelineWired \/ ServicesWired) /\ NextCycle(TestCycles)

SpecTests == Init /\ [][NextTests]_vars

(* C9: in test_function every next_cycle returns and the logger records,   *)
(* in cycle i, result's initial None for i = 0, 0 + 2 for i = 1 and        *)
(* table(i - 2) + 2 from then on: <<None, 2, 5, 6, 7>> over five cycles.   *)
C9_Pipeline ==
    (PipelineWired /\ IsCycle) =>
        /\ last.err = "ok"
        /\ cycles >= 1
        /\ DOMAIN ctl["logger"].data = {"result"}
        /\ ctl["logger"].data["result"] = Take(<<None, 2, 5, 6, 7>>, cycles)

(* C10: in test_with_services every next_cycle returns and capture_all     *)
(* records, in cycle i, number = table(i) and the result written in cycle  *)
(* i - 1: <<3, 4, 5, 5, 5>> and <<0, 5, 6, 7, 7>> over five cycles.        *)
C10_Captured ==
    (ServicesWired /\ IsCycle) =>
        /\ last.err = "ok"
        /\ cycles >= 1
        /\ DOMAIN captured["capture_all"]
              = {<<"add_two", "number">>, <<"add_two", "result">>}
        /\ captured["capture_all"][<<"add_two", "number">>]
              = Take(<<3, 4, 5, 5, 5>>, cycles)
        /\ captured["capture_all"][<<"add_two", "result">>]
              = Take(<<0, 5, 6, 7, 7>>, cycles)

====
